---- MODULE Spec2Model ----
(***************************************************************************)
(* A model of fic_archive: the source resolver (structs.rs), the           *)
(* rate-limited fetch client (client.rs), the persistence layer (sql.rs)   *)
(* and the synchronization engine (main.rs).                               *)
(*                                                                         *)
(* Strings are modelled as sequences of one-character strings where the    *)
(* code inspects or compares their characters (URL tails, ids); a literal  *)
(* the code only ever compares as a whole (a host name, a source prefix)   *)
(* is one token.                                                           *)
(*                                                                         *)
(* SQL statements are modelled by their relational effect on the tables    *)
(* of spec section 6: INSERT appends a row and fails on a PRIMARY KEY      *)
(* conflict, SELECT ... WHERE returns the matching rows in insertion       *)
(* order.  Authors and tags (INSERT OR IGNORE, never failing) are left     *)
(* out.                                                                    *)
(***************************************************************************)
EXTENDS Integers, Sequences, FiniteSets, TLC

VARIABLES
    url,          \* resolver: the URL last handed to StorySource::from_url
    classified,   \* resolver: from_url(url)
    roundtrip,    \* resolver: from_url(to_url(s)) for the s of classified
    call,         \* client: the call in progress (function, url, query)
    wire,         \* client: requests, responses and sleeps of the call, in order
    returned,     \* client: what the call returned, or that it panicked
    db,           \* the database file: the stories, sections and chapters tables
    saved,        \* persistence: the Story last handed to save_story
    loaded,       \* persistence: what get_story_by_id returned for it
    remote,       \* the story each source's site serves now
    cmd,          \* engine: the command the process is running, and the database it started from
    tasks,        \* engine: the update_story/add_story calls of the command, by source
    outcome,      \* engine: how the command ended (Null while it runs)
    page,         \* adapters: what the site of one story serves now
    skels,        \* adapters: the results of the get_skeleton calls so far, in order
    fill          \* adapters: the fill_skeleton call in progress

urlVars == <<url, classified, roundtrip>>

clientVars == <<call, wire, returned>>

treeVars == <<saved, loaded>>

engineVars == <<remote, cmd, tasks, outcome>>

adapterVars == <<page, skels, fill>>

\* what each component's actions leave alone
notUrl == <<clientVars, db, treeVars, engineVars, adapterVars>>

notClient == <<urlVars, db, treeVars, engineVars, adapterVars>>

notTree == <<urlVars, clientVars, engineVars, adapterVars>>

notEngine == <<urlVars, clientVars, treeVars, adapterVars>>

notAdapter == <<urlVars, clientVars, db, treeVars, engineVars>>

vars == <<url, classified, roundtrip, call, wire, returned, db, saved, loaded,
          remote, cmd, tasks, outcome, page, skels, fill>>

Null == [tag |-> "Null"]

EmptyDb == [stories |-> <<>>, sections |-> <<>>, chapters |-> <<>>]

\* the parts of the state a specification does not exercise stay as they start
UrlIdle ==
    /\ url = Null
    /\ classified = Null
    /\ roundtrip = Null

ClientIdle ==
    /\ call = Null
    /\ wire = <<>>
    /\ returned = Null

TreeIdle ==
    /\ saved = Null
    /\ loaded = Null

EngineIdle ==
    /\ remote = Null
    /\ cmd = Null
    /\ tasks = Null
    /\ outcome = Null

AdapterIdle ==
    /\ page = Null
    /\ skels = <<>>
    /\ fill = Null

(***************************************************************************)
(* Bounds                                                                  *)
(***************************************************************************)
\* longest URL tail (the text after the first path segment) that is enumerated
MaxTail == 3

\* most requests one call of the fetch client issues before the server stops
\* answering it
MaxRequests == 3

\* longest retry-after header text that is enumerated
MaxHeaderLen == 2

\* most nodes (Sections and Chapters) of a story handed to save_story
MaxTreeNodes == 5

\* most Section levels nested in one another in such a story
MaxTreeDepth == 2

\* most nodes (Sections and Chapters) the sites serve, all stories together
MaxNodes == 3

\* most chapters of one story their author edits after posting
MaxEdits == 1

\* most chapters the author of the adapters' story posts
\* nodes and nesting depth of the stories whose rows are loaded in any order
MaxRowNodes == 4

MaxRowDepth == 3

MaxPosts == 2

\* most get_skeleton calls made for the adapters' story
MaxFetches == 2

\* most reader pages a forum thread is split over
MaxReaderPages == 2

(***************************************************************************)
(* Generic helpers                                                         *)
(***************************************************************************)
Max(S) == CHOOSE x \in S : \A y \in S : y <= x

Min(S) == CHOOSE x \in S : \A y \in S : x <= y

SeqsUpTo(S, n) == UNION {[1..k -> S] : k \in 0..n}

Range(s) == {s[i] : i \in 1..Len(s)}

(***************************************************************************)
(* Source resolver: structs.rs                                             *)
(***************************************************************************)
Digits == {"0", "1", "2", "3", "4", "5", "6", "7", "8", "9"}

\* the characters URL tails are built from: two digits, a letter, '.', '/'
TailChars == {"1", "2", "a", ".", "/"}

Schemes == {"http", "https"}

\* host texts; "archiveofourown-org" differs from the AO3 host in the one
\* character the unescaped '.' of the ao3 pattern stands for, and
\* "katalepsis.network" extends the text the katalepsis pattern ends with
Hosts == {"archiveofourown.org", "archiveofourown-org", "www.fanfiction.net",
          "katalepsis.net", "katalepsis.network", "www.royalroad.com",
          "royalroad.com", "forums.spacebattles.com",
          "forums.sufficientvelocity.com", "example.com"}

\* first path segment, with both its slashes; "" is a URL that ends at the host
Dirs == {"", "/works/", "/s/", "/fiction/", "/threads/", "/other/"}

\* the URL text  scheme "://" host dir tail
Urls == {u \in [scheme : Schemes, host : Hosts, dir : Dirs,
                tail : SeqsUpTo(TailChars, MaxTail)] :
            u.dir = "" => u.tail = <<>>}

\* \d+ at the start of t, greedy
DigitRun(t) ==
    LET n == Max({k \in 0..Len(t) : \A i \in 1..k : t[i] \in Digits})
    IN  SubSeq(t, 1, n)

NoCapture == <<"-">>

\* (?P<id>\d+)/?.*  on the tail
CaptureId(t) == IF DigitRun(t) = <<>> THEN NoCapture ELSE DigitRun(t)

\* ([^.]+\.)?(?P<id>\d+)/?.*  on the tail: the optional group is tried first
\* and can only end at the first '.', then the pattern is retried without it
CaptureThread(t) ==
    LET dots == {i \in 1..Len(t) : t[i] = "."}
        k == IF dots = {} THEN 0 ELSE Min(dots)
        after == IF k >= 2 THEN DigitRun(SubSeq(t, k + 1, Len(t))) ELSE <<>>
    IN  IF after # <<>> THEN after ELSE CaptureId(t)

\* the rule table, in order: the literal part of each pattern as the scheme,
\* host and first segment it accepts, and the shape of the rest
init_regexes ==
    << [name |-> "ao3", schemes |-> {"https"},
        hosts |-> {"archiveofourown.org", "archiveofourown-org"},
        dir |-> "/works/", shape |-> "id"],
       [name |-> "ffnet", schemes |-> Schemes,
        hosts |-> {"www.fanfiction.net"},
        dir |-> "/s/", shape |-> "id"],
       [name |-> "katalepsis", schemes |-> Schemes,
        hosts |-> {"katalepsis.net", "katalepsis.network"},
        dir |-> "*", shape |-> "any"],
       [name |-> "rr", schemes |-> Schemes,
        hosts |-> {"www.royalroad.com"},
        dir |-> "/fiction/", shape |-> "id"],
       [name |-> "sb", schemes |-> Schemes,
        hosts |-> {"forums.spacebattles.com"},
        dir |-> "/threads/", shape |-> "thread"],
       [name |-> "sv", schemes |-> Schemes,
        hosts |-> {"forums.sufficientvelocity.com"},
        dir |-> "/threads/", shape |-> "thread"] >>

\* regex.captures(url).name("id"): NoCapture when the group took no part
RegexCapture(rule, u) ==
    CASE rule.shape = "id" -> CaptureId(u.tail)
      [] rule.shape = "thread" -> CaptureThread(u.tail)
      [] OTHER -> NoCapture

\* regex.is_match(url)
RegexIsMatch(rule, u) ==
    /\ u.scheme \in rule.schemes
    /\ u.host \in rule.hosts
    /\ rule.dir \in {"*", u.dir}
    /\ rule.shape \in {"id", "thread"} => RegexCapture(rule, u) # NoCapture

Variants == {"AO3", "Katalepsis", "RoyalRoad", "SpaceBattles", "SufficientVelocity"}

IdSource(variant, id) ==
    IF id = NoCapture THEN [tag |-> "NoIdInSource"]
    ELSE [tag |-> "Ok", source |-> [variant |-> variant, id |-> id]]

from_url_any_id(u) ==
    LET hits == {i \in 1..Len(init_regexes) : RegexIsMatch(init_regexes[i], u)}
    IN  IF hits = {} THEN [tag |-> "BadSource"]
        ELSE LET rule == init_regexes[Min(hits)]
                 id == RegexCapture(rule, u)
             IN  CASE rule.name = "ao3" -> IdSource("AO3", id)
                   [] rule.name = "katalepsis" -> IdSource("Katalepsis", id)
                   [] rule.name = "rr" -> IdSource("RoyalRoad", id)
                   [] rule.name = "sb" -> IdSource("SpaceBattles", id)
                   [] rule.name = "sv" -> IdSource("SufficientVelocity", id)
                   [] OTHER -> [tag |-> "Panic"]

\* StorySource::from_url: the first rule that matches decides
from_url(u) ==
    LET hits == {i \in 1..Len(init_regexes) : RegexIsMatch(init_regexes[i], u)}
    IN  IF hits = {} THEN [tag |-> "BadSource"]
        ELSE LET rule == init_regexes[Min(hits)]
                 id == RegexCapture(rule, u)
             IN  CASE rule.name = "ao3" -> IdSource("AO3", id)
                   [] rule.name = "katalepsis" ->
                        [tag |-> "Ok",
                         source |-> [variant |-> "Katalepsis", id |-> <<>>]]
                   [] rule.name = "rr" -> IdSource("RoyalRoad", id)
                   [] rule.name = "sb" -> IdSource("SpaceBattles", id)
                   [] rule.name = "sv" -> IdSource("SufficientVelocity", id)
                   [] OTHER -> [tag |-> "Panic"]

prefix(s) ==
    CASE s.variant = "AO3" -> "ao3"
      [] s.variant = "Katalepsis" -> "katalepsis"
      [] s.variant = "RoyalRoad" -> "rr"
      [] s.variant = "SpaceBattles" -> "sb"
      [] s.variant = "SufficientVelocity" -> "sv"

\* StorySource::to_id: "{prefix}:{id}", the prefix alone for Katalepsis
to_id(s) ==
    IF s.variant = "Katalepsis" THEN <<prefix(s)>>
    ELSE <<prefix(s), ":">> \o s.id

to_url_http(s) ==
    CASE s.variant = "AO3" ->
            [scheme |-> "http", host |-> "archiveofourown.org",
             dir |-> "/works/", tail |-> s.id]
      [] s.variant = "Katalepsis" ->
            [scheme |-> "http", host |-> "katalepsis.net",
             dir |-> "", tail |-> <<>>]
      [] s.variant = "RoyalRoad" ->
            [scheme |-> "http", host |-> "www.royalroad.com",
             dir |-> "/fiction/", tail |-> s.id]
      [] s.variant = "SpaceBattles" ->
            [scheme |-> "http", host |-> "forums.spacebattles.com",
             dir |-> "/threads/", tail |-> s.id]
      [] s.variant = "SufficientVelocity" ->
            [scheme |-> "http", host |-> "forums.sufficientvelocity.com",
             dir |-> "/threads/", tail |-> s.id]

\* StorySource::to_url
to_url(s) ==
    CASE s.variant = "AO3" ->
            [scheme |-> "https", host |-> "archiveofourown.org",
             dir |-> "/works/", tail |-> s.id]
      [] s.variant = "Katalepsis" ->
            [scheme |-> "https", host |-> "katalepsis.net",
             dir |-> "", tail |-> <<>>]
      [] s.variant = "RoyalRoad" ->
            [scheme |-> "https", host |-> "www.royalroad.com",
             dir |-> "/fiction/", tail |-> s.id]
      [] s.variant = "SpaceBattles" ->
            [scheme |-> "https", host |-> "forums.spacebattles.com",
             dir |-> "/threads/", tail |-> s.id]
      [] s.variant = "SufficientVelocity" ->
            [scheme |-> "https", host |-> "forums.sufficientvelocity.com",
             dir |-> "/threads/", tail |-> s.id]

(***************************************************************************)
(* Rate-limited fetch client: client.rs                                    *)
(***************************************************************************)
TOO_MANY_REQUESTS == 429

DefaultWait == <<"6", "0">>

Statuses == {200, 404, TOO_MANY_REQUESTS, 500}

HeaderChars == {"5", "a"}

\* the retry-after header of a response: absent, bytes that are no visible
\* ASCII (HeaderValue::to_str fails), or a text
RetryAfterHeaders ==
    {[kind |-> "absent"], [kind |-> "opaque"]}
        \cup {[kind |-> "text", text |-> t] : t \in SeqsUpTo(HeaderChars, MaxHeaderLen)}

Responses ==
    {[tag |-> "response", status |-> st, retry_after |-> h] :
        st \in Statuses, h \in RetryAfterHeaders}

DigitValue(c) ==
    CASE c = "0" -> 0 [] c = "1" -> 1 [] c = "2" -> 2 [] c = "3" -> 3
      [] c = "4" -> 4 [] c = "5" -> 5 [] c = "6" -> 6 [] c = "7" -> 7
      [] c = "8" -> 8 [] c = "9" -> 9

RECURSIVE Decimal(_)
Decimal(t) ==
    IF t = <<>> THEN 0
    ELSE 10 * Decimal(SubSeq(t, 1, Len(t) - 1)) + DigitValue(t[Len(t)])

\* u64::from_str_radix(text, 10): a number for a non-empty run of digits
from_str_radix(t) ==
    IF t # <<>> /\ \A i \in 1..Len(t) : t[i] \in Digits
    THEN [ok |-> TRUE, value |-> Decimal(t)]
    ELSE [ok |-> FALSE]

\* the text the seconds are read from: "60" when the header is absent or is
\* not a string
time_to_wait(response) ==
    CASE response.retry_after.kind = "absent" -> DefaultWait
      [] response.retry_after.kind = "opaque" -> DefaultWait
      [] OTHER -> response.retry_after.text

Request(c) == [tag |-> "request", url |-> c.url, query |-> c.query]

\* the request the retry loop sends again: client.get(url)[.query(query)].send()
Reissue(c) == Request(c)

Requests(w) == {i \in 1..Len(w) : w[i].tag = "request"}

\* get(url) and get_with_query(url, query): the first request is sent
Call(fn, u, q) ==
    /\ call = Null
    /\ returned = Null
    /\ (fn = "get") <=> (q = "none")
    /\ call' = [fn |-> fn, url |-> u, query |-> q]
    /\ wire' = <<Request(call')>>
    /\ returned' = Null
    /\ UNCHANGED notClient

\* send().await? fails: the error goes to the caller
TransportError ==
    /\ call # Null
    /\ returned = Null
    /\ wire' = Append(wire, [tag |-> "transport_error"])
    /\ returned' = [tag |-> "Err", error |-> "Request"]
    /\ UNCHANGED <<call, notClient>>

\* a loop that goes round again on every response that is not a success
retries_unless_ok(response) == response.status # 200

\* match response.status(): TOO_MANY_REQUESTS goes round again, every other
\* status is `_ => break Ok(response)`
retries(response) == response.status = TOO_MANY_REQUESTS

\* a response arrives: one turn of the loop
Respond(r) ==
    /\ call # Null
    /\ returned = Null
    /\ IF retries(r)
       THEN LET secs == from_str_radix(time_to_wait(r))
            IN  IF secs.ok
                THEN /\ Cardinality(Requests(wire)) < MaxRequests
                     /\ wire' = wire \o <<r, [tag |-> "sleep", secs |-> secs.value],
                                          Reissue(call)>>
                     /\ returned' = returned
                ELSE /\ wire' = Append(wire, r)
                     /\ returned' = [tag |-> "Panic"]
       ELSE /\ wire' = Append(wire, r)
            /\ returned' = [tag |-> "Ok", response |-> r]
    /\ UNCHANGED <<call, notClient>>

ClientUrls == {"u1", "u2"}

Queries == {"q1", "q2"}

ClientInit ==
    /\ ClientIdle
    /\ UrlIdle
    /\ db = EmptyDb
    /\ TreeIdle
    /\ EngineIdle
    /\ AdapterIdle

ClientNext ==
    \/ \E fn \in {"get", "get_with_query"}, u \in ClientUrls, q \in Queries \cup {"none"} :
            Call(fn, u, q)
    \/ TransportError
    \/ \E r \in Responses : Respond(r)

SpecClient == ClientInit /\ [][ClientNext]_vars

\* the server answers a request that is waiting with something other than a
\* 429, or the transport fails
Answer ==
    \/ TransportError
    \/ \E r \in Responses : r.status # TOO_MANY_REQUESTS /\ Respond(r)

\* the client with a server that does not answer 429 for ever
SpecClientLive == SpecClient /\ WF_vars(Answer)

(***************************************************************************)
(* C10: in get and get_with_query every 429 response is followed by a      *)
(* sleep of the number of seconds its retry-after header gives and then by *)
(* the identical request (same URL, same query), for every further 429     *)
(* too, and no call returns a 429 response                                 *)
(***************************************************************************)
C10_RetryOnEvery429 ==
    /\ \A i \in 1..Len(wire) :
          (wire[i].tag = "response" /\ wire[i].status = TOO_MANY_REQUESTS) =>
              /\ i + 2 <= Len(wire)
              /\ wire[i + 1].tag = "sleep"
              /\ (/\ wire[i].retry_after.kind = "text"
                  /\ from_str_radix(wire[i].retry_after.text).ok) =>
                    wire[i + 1].secs = Decimal(wire[i].retry_after.text)
              /\ wire[i + 2] = wire[1]
              /\ wire[1] = [tag |-> "request", url |-> call.url, query |-> call.query]
    /\ (returned # Null /\ returned.tag = "Ok") =>
          returned.response.status # TOO_MANY_REQUESTS

\* the part of the retry loop that holds: a 429 whose header is a decimal
\* number is followed by that sleep and the identical request, and no call
\* returns a 429
RetryOnNumeric429 ==
    /\ \A i \in 1..Len(wire) :
          (/\ wire[i].tag = "response"
           /\ wire[i].status = TOO_MANY_REQUESTS
           /\ wire[i].retry_after.kind = "text"
           /\ from_str_radix(wire[i].retry_after.text).ok) =>
              /\ i + 2 <= Len(wire)
              /\ wire[i + 1] = [tag |-> "sleep",
                                secs |-> Decimal(wire[i].retry_after.text)]
              /\ wire[i + 2] = wire[1]
              /\ wire[1] = [tag |-> "request", url |-> call.url, query |-> call.query]
    /\ (returned # Null /\ returned.tag = "Ok") =>
          returned.response.status # TOO_MANY_REQUESTS

\* a get_with_query call was answered 429 twice, with different waits, and
\* then returned a response
RetriedTwice ==
    /\ call # Null
    /\ call.fn = "get_with_query"
    /\ returned # Null
    /\ returned.tag = "Ok"
    /\ Len(wire) = 8
    /\ wire[3].secs = 5
    /\ wire[6].secs = 55

(***************************************************************************)
(* C11: a 429 response whose retry-after header is absent or is not a      *)
(* number is followed by a sleep of the default 60 seconds and then by the *)
(* request again: the call neither fails nor aborts                        *)
(***************************************************************************)
C11_DefaultOnBadHeader ==
    \A i \in 1..Len(wire) :
        (/\ wire[i].tag = "response"
         /\ wire[i].status = TOO_MANY_REQUESTS
         /\ \/ wire[i].retry_after.kind # "text"
            \/ ~from_str_radix(wire[i].retry_after.text).ok) =>
            /\ i + 2 <= Len(wire)
            /\ wire[i + 1] = [tag |-> "sleep", secs |-> Decimal(DefaultWait)]
            /\ wire[i + 2] = wire[1]

(***************************************************************************)
(* C30: get and get_with_query end at the first answer that is not a 429:  *)
(* a response of any other status is returned, a transport error is        *)
(* returned as the error, nothing is sent after it, and with a server that *)
(* does not answer 429 for ever every call comes to an end                 *)
(***************************************************************************)
Answered(i) ==
    \/ wire[i].tag = "transport_error"
    \/ wire[i].tag = "response" /\ wire[i].status # TOO_MANY_REQUESTS

C30_EndsAtFirstAnswer ==
    /\ [](\A i \in 1..Len(wire) :
            Answered(i) =>
                /\ i = Len(wire)
                /\ returned = (IF wire[i].tag = "transport_error"
                               THEN [tag |-> "Err", error |-> "Request"]
                               ELSE [tag |-> "Ok", response |-> wire[i]]))
    /\ [](call # Null => <>(returned # Null))

\* a get call was answered 429 and then 404, and returned the 404 response
C30_Witness ==
    /\ call # Null
    /\ call.fn = "get"
    /\ returned # Null
    /\ returned.tag = "Ok"
    /\ returned.response.status = 404
    /\ Len(wire) = 5
    /\ wire[2].status = TOO_MANY_REQUESTS

(***************************************************************************)
(* Content tree: structs.rs                                                *)
(***************************************************************************)
Dehydrated == [tag |-> "Dehydrated"]

Hydrated(t) == [tag |-> "Hydrated", text |-> t]

\* ChapterText::as_str
as_str(text) == IF text.tag = "Hydrated" THEN text.text ELSE ""

Chapter(id, text) == [kind |-> "Chapter", id |-> id, text |-> text]

Section(id, chapters) == [kind |-> "Section", id |-> id, chapters |-> chapters]

\* Option<&str>::None for a parent id
NoParent == <<>>

\* the id an adapter gives a node: format!("{}:{}", source.to_id(), sub)
ContentId(s, sub) == to_id(s) \o <<":">> \o sub

\* byte order of the characters ids are made of: digits, then ':', then the
\* letters of the source prefixes
CharRank(c) ==
    CASE c \in Digits -> DigitValue(c)
      [] c = ":" -> 10
      [] c = "ao3" -> 11
      [] c = "katalepsis" -> 12
      [] c = "rr" -> 13
      [] c = "sb" -> 14
      [] c = "sv" -> 15

\* a.id().cmp(b.id()) = Less: str comparison, lexicographic by character
IdLess(a, b) ==
    \E k \in 1..(Len(b)) :
        /\ \A i \in 1..(k - 1) : i <= Len(a) /\ a[i] = b[i]
        /\ \/ Len(a) = k - 1
           \/ Len(a) >= k /\ CharRank(a[k]) < CharRank(b[k])

\* the comparator of both par_sort_unstable_by calls
SortBefore(a, b) == IdLess(a.id, b.id)

RECURSIVE SortInsert(_, _)
SortInsert(sorted, c) ==
    IF sorted = <<>> THEN <<c>>
    ELSE IF SortBefore(c, Head(sorted)) THEN <<c>> \o sorted
    ELSE <<Head(sorted)>> \o SortInsert(Tail(sorted), c)

RECURSIVE SortAll(_)
SortAll(cs) ==
    IF cs = <<>> THEN <<>>
    ELSE SortInsert(SortAll(SubSeq(cs, 1, Len(cs) - 1)), cs[Len(cs)])

\* par_sort_unstable_by(|a, b| a.id().cmp(b.id())) on nodes of distinct ids
par_sort_unstable_by(cs) == SortAll(cs)

flatten_top(cs) == {cs[i].id : i \in 1..Len(cs)}

\* flatten_content over a forest: the id of every node, Sections descended into
RECURSIVE flatten_content(_)
flatten_content(cs) ==
    IF cs = <<>> THEN {}
    ELSE LET c == Head(cs)
         IN  {c.id}
                \cup (IF c.kind = "Section" THEN flatten_content(c.chapters) ELSE {})
                \cup flatten_content(Tail(cs))

\* a count of every node, Sections as well as Chapters
num_contents(cs) == Cardinality(flatten_content(cs))

\* Story::num_chapters / Section::num_chapters
RECURSIVE num_chapters(_)
num_chapters(cs) ==
    IF cs = <<>> THEN 0
    ELSE (IF Head(cs).kind = "Section" THEN num_chapters(Head(cs).chapters) ELSE 1)
            + num_chapters(Tail(cs))

NotFound == [tag |-> "None"]

\* a search that reports the holder it started under, not the Section it
\* found the node in
RECURSIVE find_child_outer(_, _, _)
find_child_outer(cs, parent, id) ==
    IF cs = <<>> THEN NotFound
    ELSE LET c == Head(cs)
             below == IF c.kind = "Section"
                      THEN find_child_outer(c.chapters, parent, id)
                      ELSE NotFound
         IN  IF c.id = id THEN [tag |-> "Some", chapter |-> c, parent |-> parent]
             ELSE IF below # NotFound THEN below
             ELSE find_child_outer(Tail(cs), parent, id)

\* Story::find_chapter and Content::find_child: depth first, the first node of
\* that id and the Section that holds it
RECURSIVE find_child(_, _, _)
find_child(cs, parent, id) ==
    IF cs = <<>> THEN NotFound
    ELSE LET c == Head(cs)
             below == IF c.kind = "Section"
                      THEN find_child(c.chapters, c.id, id)
                      ELSE NotFound
         IN  IF c.id = id THEN [tag |-> "Some", chapter |-> c, parent |-> parent]
             ELSE IF below # NotFound THEN below
             ELSE find_child(Tail(cs), parent, id)

find_chapter(story, id) == find_child(story.chapters, NoParent, id)

(***************************************************************************)
(* Persistence layer: sql.rs                                               *)
(*                                                                         *)
(* A database value is the three tables; the record a write returns adds   *)
(* ok (FALSE once a statement failed and its unwrap panicked: the rows     *)
(* written before stay) and writes (rows inserted so far).                 *)
(***************************************************************************)
Begin(d) == [stories |-> d.stories, sections |-> d.sections,
             chapters |-> d.chapters, ok |-> TRUE, writes |-> 0]

Tables(w) == [stories |-> w.stories, sections |-> w.sections,
              chapters |-> w.chapters]

HasId(table, id) == \E i \in 1..Len(table) : table[i].id = id

\* INSERT INTO stories: id is the PRIMARY KEY
InsertStory(w, row) ==
    IF ~w.ok THEN w
    ELSE IF HasId(w.stories, row.id) THEN [w EXCEPT !.ok = FALSE]
    ELSE [w EXCEPT !.stories = Append(@, row), !.writes = @ + 1]

\* INSERT INTO sections: id is the PRIMARY KEY
InsertSection(w, row) ==
    IF ~w.ok THEN w
    ELSE IF HasId(w.sections, row.id) THEN [w EXCEPT !.ok = FALSE]
    ELSE [w EXCEPT !.sections = Append(@, row), !.writes = @ + 1]

\* INSERT INTO chapters: id is the PRIMARY KEY
InsertChapter(w, row) ==
    IF ~w.ok THEN w
    ELSE IF HasId(w.chapters, row.id) THEN [w EXCEPT !.ok = FALSE]
    ELSE [w EXCEPT !.chapters = Append(@, row), !.writes = @ + 1]

\* Database::story_exists_with_id
story_exists_with_id(d, id) ==
    Cardinality({i \in 1..Len(d.stories) : d.stories[i].id = id}) = 1

\* Database::save_content: the node's row, then its children under it
RECURSIVE save_content(_, _, _, _)
save_content(w, content, story_id, parent_id) ==
    IF ~w.ok THEN w
    ELSE IF content.kind = "Section"
    THEN LET w1 == InsertSection(w, [id |-> content.id, story_id |-> story_id,
                                     parent_id |-> parent_id])
             inner[n \in 0..Len(content.chapters)] ==
                IF n = 0 THEN w1
                ELSE save_content(inner[n - 1], content.chapters[n],
                                  story_id, content.id)
         IN  inner[Len(content.chapters)]
    ELSE InsertChapter(w, [id |-> content.id, text |-> as_str(content.text),
                           story_id |-> story_id, section_id |-> parent_id])

\* Database::save_story: the stories row, then every top-level node
save_story(w, story) ==
    LET w1 == InsertStory(w, [id |-> to_id(story.source), name |-> story.name,
                              url |-> to_url(story.source)])
        each[n \in 0..Len(story.chapters)] ==
            IF n = 0 THEN w1
            ELSE save_content(each[n - 1], story.chapters[n],
                              to_id(story.source), NoParent)
    IN  each[Len(story.chapters)]

RemoveAt(s, i) == SubSeq(s, 1, i - 1) \o SubSeq(s, i + 1, Len(s))

\* sections.iter_mut().find(|(_, s)| s.id == parent_id): its index, 0 for None
FindSection(sections, parent_id) ==
    LET hits == {i \in 1..Len(sections) : sections[i].node.id = parent_id}
    IN  IF hits = {} THEN 0 ELSE Min(hits)

PushChild(sections, i, child) ==
    [sections EXCEPT ![i].node.chapters = Append(@, child)]

\* the loop over chapters: for idx in (0..chapters.len() - 1).rev(), here
\* with positions counted from 1, so from `last` down to 1
RECURSIVE FoldChapters(_, _)
FoldChapters(st, idx) ==
    IF idx < 1 \/ ~st.ok THEN st
    ELSE IF st.chapters[idx].parent = NoParent THEN FoldChapters(st, idx - 1)
    ELSE LET row == st.chapters[idx]
             at == FindSection(st.sections, row.parent)
         IN  IF at = 0 THEN [st EXCEPT !.ok = FALSE]
             ELSE FoldChapters(
                    [st EXCEPT !.chapters = RemoveAt(@, idx),
                               !.sections = PushChild(@, at, row.node)],
                    idx - 1)

\* the loop over sections: sort the section's children, then move the section
\* under its parent when that parent is still in the list
RECURSIVE FoldSections(_, _)
FoldSections(sections, idx) ==
    IF idx < 1 THEN sections
    ELSE LET s1 == [sections EXCEPT
                        ![idx].node.chapters = par_sort_unstable_by(@)]
         IN  IF s1[idx].parent = NoParent THEN FoldSections(s1, idx - 1)
             ELSE LET row == s1[idx]
                      rest == RemoveAt(s1, idx)
                      at == FindSection(rest, row.parent)
                  IN  FoldSections(
                        IF at = 0 THEN rest ELSE PushChild(rest, at, row.node),
                        idx - 1)

\* the first index either loop visits: len - 2 counted from 0
FirstFolded(rows) == Len(rows) - 1

RowsOf(table, story_id) ==
    SelectSeq(table, LAMBDA r : r.story_id = story_id)

\* Database::get_story_by_id
get_story_by_id(d, id) ==
    IF ~story_exists_with_id(d, id) THEN [tag |-> "None"]
    ELSE
    LET srows == RowsOf(d.sections, id)
        crows == RowsOf(d.chapters, id)
        sections == [i \in 1..Len(srows) |->
                        [parent |-> srows[i].parent_id,
                         node |-> Section(srows[i].id, <<>>)]]
        chapters == [i \in 1..Len(crows) |->
                        [parent |-> crows[i].section_id,
                         node |-> Chapter(crows[i].id, Hydrated(crows[i].text))]]
        st == FoldChapters([chapters |-> chapters, sections |-> sections,
                            ok |-> TRUE], FirstFolded(chapters))
        folded == FoldSections(st.sections, FirstFolded(st.sections))
        story_chapters == [i \in 1..Len(folded) |-> folded[i].node]
                            \o [i \in 1..Len(st.chapters) |-> st.chapters[i].node]
        row == CHOOSE r \in Range(d.stories) : r.id = id
    IN  IF ~st.ok THEN [tag |-> "Panic"]
        ELSE [tag |-> "Some",
              story |-> [source |-> from_url(row.url).source,
                         name |-> row.name,
                         chapters |-> par_sort_unstable_by(story_chapters)]]

(***************************************************************************)
(* Stories: every forest of Sections (never empty) and Chapters over a set *)
(* of ids, in every order, up to a nesting depth                           *)
(***************************************************************************)
\* site-native sub-identifiers, as the adapters append them to the story id
AllSubs == << <<"1">>, <<"2">>, <<"1", "0">>, <<"3">>, <<"4">>, <<"5">>, <<"6">> >>

SubIds(n) == {AllSubs[i] : i \in 1..n}

RECURSIVE ForestsOver(_, _, _)
\* the forests whose nodes carry exactly the sub-ids J
ForestsOver(s, J, depth) ==
    IF J = {} THEN {<<>>}
    ELSE UNION {
            UNION {
                {<<n>> \o rest : rest \in ForestsOver(s, J \ K, depth)} :
                n \in
                    (IF Cardinality(K) = 1
                     THEN {Chapter(ContentId(s, k), Hydrated("text")) : k \in K}
                     ELSE {})
                    \cup
                    (IF depth > 0 /\ Cardinality(K) > 1
                     THEN UNION {{Section(ContentId(s, k), kids) :
                                    kids \in ForestsOver(s, K \ {k}, depth - 1)} :
                                 k \in K}
                     ELSE {})} :
            K \in (SUBSET J) \ {{}}}

TreeSource == [variant |-> "Katalepsis", id |-> <<>>]

\* the stories of at most `nodes` nodes nested at most `depth` Sections deep
TreeStories(nodes, depth) ==
    {[source |-> TreeSource, name |-> "name", chapters |-> f] :
        f \in UNION {ForestsOver(TreeSource, J, depth) :
                        J \in SUBSET SubIds(nodes)}}

\* every (node id, id of the Section holding it) of a forest
RECURSIVE ParentOf(_, _)
ParentOf(cs, parent) ==
    IF cs = <<>> THEN {}
    ELSE LET c == Head(cs)
         IN  {<<c.id, parent>>}
                \cup (IF c.kind = "Section" THEN ParentOf(c.chapters, c.id) ELSE {})
                \cup ParentOf(Tail(cs), parent)

(***************************************************************************)
(* Persistence specification: a story is saved into an empty database and  *)
(* read back.                                                              *)
(***************************************************************************)
TreeInit ==
    /\ saved \in TreeStories(MaxTreeNodes, MaxTreeDepth)
    /\ loaded = Null
    /\ db = EmptyDb
    /\ UrlIdle
    /\ ClientIdle
    /\ EngineIdle
    /\ AdapterIdle

SaveStory ==
    /\ db = EmptyDb
    /\ LET w == save_story(Begin(db), saved)
       IN  /\ w.ok
           /\ db' = Tables(w)
    /\ UNCHANGED <<saved, loaded, notTree>>

GetStoryById ==
    /\ db # EmptyDb
    /\ loaded = Null
    /\ loaded' = get_story_by_id(db, to_id(saved.source))
    /\ UNCHANGED <<saved, db, notTree>>

TreeNext ==
    \/ SaveStory
    \/ GetStoryById

SpecTree == TreeInit /\ [][TreeNext]_vars

(***************************************************************************)
(* C4: save_story followed by get_story_by_id yields a tree isomorphic to  *)
(* the saved one: the same node ids, every node under the same parent      *)
(***************************************************************************)
C4_TreeReconstruction ==
    loaded # Null =>
        /\ loaded.tag = "Some"
        /\ ParentOf(loaded.story.chapters, NoParent)
              = ParentOf(saved.chapters, NoParent)

\* whether a list of nodes is in ascending order of id, and so is the list
\* of children of every Section in it
RECURSIVE SortedAtEveryLevel(_)
SortedAtEveryLevel(cs) ==
    /\ \A i \in 1..(Len(cs) - 1) : IdLess(cs[i].id, cs[i + 1].id)
    /\ \A i \in 1..Len(cs) :
          cs[i].kind = "Section" => SortedAtEveryLevel(cs[i].chapters)

(***************************************************************************)
(* C24: in the tree get_story_by_id returns, the top-level list and the    *)
(* children of every Section are in ascending lexicographic order of id    *)
(***************************************************************************)
C24_SortedAtEveryLevel ==
    (IF loaded = Null THEN FALSE ELSE loaded.tag = "Some") =>
        SortedAtEveryLevel(loaded.story.chapters)

(***************************************************************************)
(* Row order: both SELECTs of get_story_by_id have no ORDER BY, so the     *)
(* order of the rows is the one the tables happen to hold.  An update      *)
(* that a failed INSERT interrupted can leave the row of a Section before  *)
(* the row of its parent (the new ids are saved in HashSet order).  Here   *)
(* the rows of a story are written in any order and the story is read      *)
(* back.                                                                   *)
(***************************************************************************)
\* every order a set may be iterated in
Orders(S) ==
    {f \in [1..Cardinality(S) -> S] : \A i, j \in DOMAIN f : f[i] = f[j] => i = j}

Reordered(rows, f) == [i \in 1..Len(rows) |-> rows[f[i]]]

RowsInit ==
    /\ saved \in TreeStories(MaxRowNodes, MaxRowDepth)
    /\ loaded = Null
    /\ db = EmptyDb
    /\ UrlIdle
    /\ ClientIdle
    /\ EngineIdle
    /\ AdapterIdle

SaveRows ==
    /\ db = EmptyDb
    /\ LET w == save_story(Begin(db), saved)
       IN  /\ w.ok
           /\ \E f \in Orders(1..Len(w.sections)), g \in Orders(1..Len(w.chapters)) :
                 db' = [stories |-> w.stories,
                        sections |-> Reordered(w.sections, f),
                        chapters |-> Reordered(w.chapters, g)]
    /\ UNCHANGED <<saved, loaded, notTree>>

RowsNext ==
    \/ SaveRows
    \/ GetStoryById

SpecRows == RowsInit /\ [][RowsNext]_vars

\* the ids of the nodes of a forest, one entry per node
RECURSIVE IdList(_)
IdList(cs) ==
    IF cs = <<>> THEN <<>>
    ELSE <<Head(cs).id>>
            \o (IF Head(cs).kind = "Section" THEN IdList(Head(cs).chapters) ELSE <<>>)
            \o IdList(Tail(cs))

(***************************************************************************)
(* C28: get_story_by_id loses and duplicates no node: the tree it returns  *)
(* holds every sections row and every chapters row of the story exactly    *)
(* once, whatever the order of the rows                                    *)
(***************************************************************************)
C28_EveryRowOnce ==
    loaded # Null =>
        /\ loaded.tag = "Some"
        /\ LET ids == IdList(loaded.story.chapters)
           IN  /\ Len(ids) = Len(db.sections) + Len(db.chapters)
               /\ Range(ids) = {db.sections[i].id : i \in 1..Len(db.sections)}
                                  \cup {db.chapters[i].id : i \in 1..Len(db.chapters)}

(***************************************************************************)
(* The sites and the adapters                                              *)
(***************************************************************************)
FirstSource == [variant |-> "Katalepsis", id |-> <<>>]

OtherSource == [variant |-> "RoyalRoad", id |-> <<"1">>]

Sources == {FirstSource, OtherSource}

NewText == "v1"

EditedText == "v2"

RECURSIVE CountNodes(_)
CountNodes(cs) ==
    IF cs = <<>> THEN 0
    ELSE 1 + (IF Head(cs).kind = "Section" THEN CountNodes(Head(cs).chapters) ELSE 0)
           + CountNodes(Tail(cs))

\* the nodes the sites serve, all stories together
Served == CountNodes(remote[FirstSource].chapters) + CountNodes(remote[OtherSource].chapters)

\* the forest with `node` added as the last child of `parent` (NoParent: at
\* top level)
RECURSIVE AddUnder(_, _, _)
AddUnder(cs, parent, node) ==
    IF parent = NoParent THEN Append(cs, node)
    ELSE [i \in 1..Len(cs) |->
            IF cs[i].kind # "Section" THEN cs[i]
            ELSE IF cs[i].id = parent
                 THEN Section(cs[i].id, Append(cs[i].chapters, node))
                 ELSE Section(cs[i].id, AddUnder(cs[i].chapters, parent, node))]

\* the forest with the text of chapter `id` replaced
RECURSIVE WithText(_, _, _)
WithText(cs, id, text) ==
    [i \in 1..Len(cs) |->
        IF cs[i].kind = "Section"
        THEN Section(cs[i].id, WithText(cs[i].chapters, id, text))
        ELSE IF cs[i].id = id THEN Chapter(id, text) ELSE cs[i]]

RECURSIVE SectionIds(_)
SectionIds(cs) ==
    IF cs = <<>> THEN {}
    ELSE (IF Head(cs).kind = "Section"
          THEN {Head(cs).id} \cup SectionIds(Head(cs).chapters)
          ELSE {})
            \cup SectionIds(Tail(cs))

RECURSIVE Chapters(_)
\* the Chapter nodes of a forest, at every depth
Chapters(cs) ==
    IF cs = <<>> THEN {}
    ELSE (IF Head(cs).kind = "Section"
          THEN Chapters(Head(cs).chapters)
          ELSE {Head(cs)})
            \cup Chapters(Tail(cs))

RECURSIVE DehydrateAll(_)
DehydrateAll(cs) ==
    [i \in 1..Len(cs) |->
        IF cs[i].kind = "Section"
        THEN Section(cs[i].id, DehydrateAll(cs[i].chapters))
        ELSE Chapter(cs[i].id, Dehydrated)]

\* the forest with chapter `id` taken down: the site keeps the node, and the
\* number it gave it, but lists it no more
RECURSIVE Withdraw(_, _)
Withdraw(cs, id) ==
    [i \in 1..Len(cs) |->
        IF cs[i].kind = "Section"
        THEN Section(cs[i].id, Withdraw(cs[i].chapters, id))
        ELSE IF cs[i].id = id THEN [cs[i] EXCEPT !.kind = "Removed"] ELSE cs[i]]

\* what the pages of the site list: the chapters that were not taken down,
\* and the Sections that still hold one (an adapter builds its Sections out
\* of the chapters it finds)
RECURSIVE Listed(_)
Listed(cs) ==
    IF cs = <<>> THEN <<>>
    ELSE (CASE Head(cs).kind = "Removed" -> <<>>
            [] Head(cs).kind = "Section" ->
                  IF Listed(Head(cs).chapters) = <<>> THEN <<>>
                  ELSE <<Section(Head(cs).id, Listed(Head(cs).chapters))>>
            [] OTHER -> <<Head(cs)>>)
         \o Listed(Tail(cs))

\* the site as its pages show it
Pages(site) == [site EXCEPT !.chapters = Listed(@)]

\* the body the site serves for a chapter now
BodyOf(site, id) ==
    (CHOOSE c \in Chapters(site.chapters) : c.id = id).text

RECURSIVE HydrateAll(_, _)
HydrateAll(cs, site) ==
    [i \in 1..Len(cs) |->
        IF cs[i].kind = "Section"
        THEN Section(cs[i].id, HydrateAll(cs[i].chapters, site))
        ELSE Chapter(cs[i].id, BodyOf(site, cs[i].id))]

\* KatalepsisParser::get_skeleton on a page that parses: every arc a Section,
\* every Chapter the table of contents lists, chapter bodies Dehydrated
KatalepsisParser_get_skeleton(site) ==
    [source |-> site.source, name |-> site.name,
     chapters |-> DehydrateAll(site.chapters)]

\* KatalepsisParser::fill_skeleton when every fetch succeeds: every Chapter,
\* at every depth, gets the body of its page
KatalepsisParser_fill_skeleton(skeleton, site) ==
    [skeleton EXCEPT !.chapters = HydrateAll(@, site)]

\* RoyalRoadParser::get_skeleton on a page that parses: one Dehydrated
\* Chapter per row of the chapter table
RoyalRoadParser_get_skeleton(site) ==
    [source |-> site.source, name |-> site.name,
     chapters |-> [i \in 1..Len(site.chapters) |->
                      Chapter(site.chapters[i].id, Dehydrated)]]

\* RoyalRoadParser::fill_skeleton when every fetch succeeds: the Chapters of
\* the story's own list get the body of their page, Sections are passed over
RoyalRoadParser_fill_skeleton(skeleton, site) ==
    [skeleton EXCEPT !.chapters =
        [i \in 1..Len(@) |->
            IF @[i].kind = "Chapter"
            THEN Chapter(@[i].id, BodyOf(site, @[i].id))
            ELSE @[i]]]

\* the chapter pages KatalepsisParser::fill_skeleton requests: one per Chapter
KatalepsisParser_pages(skeleton) == {c.id : c \in Chapters(skeleton.chapters)}

\* the chapter pages RoyalRoadParser::fill_skeleton requests: get(&chapter.url)
\* for every Chapter of the story's own list, all sent before any is awaited
RoyalRoadParser_pages(skeleton) ==
    {skeleton.chapters[i].id :
        i \in {j \in 1..Len(skeleton.chapters) : skeleton.chapters[j].kind = "Chapter"}}

\* the chapter pages parser.fill_skeleton(skeleton) requests
pages_fetched(skeleton) ==
    IF skeleton.source.variant = "Katalepsis"
    THEN KatalepsisParser_pages(skeleton)
    ELSE RoyalRoadParser_pages(skeleton)

\* source.parser().get_skeleton(source)
get_skeleton(site) ==
    IF site.source.variant = "Katalepsis"
    THEN KatalepsisParser_get_skeleton(site)
    ELSE RoyalRoadParser_get_skeleton(site)

\* parser.fill_skeleton(skeleton)
fill_skeleton(skeleton, site) ==
    IF skeleton.source.variant = "Katalepsis"
    THEN KatalepsisParser_fill_skeleton(skeleton, site)
    ELSE RoyalRoadParser_fill_skeleton(skeleton, site)

(***************************************************************************)
(* Synchronization engine: main.rs                                         *)
(***************************************************************************)
Ok(n) == [tag |-> "Ok", n |-> n]

Err(e) == [tag |-> "Err", error |-> e]

Panic == [tag |-> "Panic"]

\* Database::get_all_stories: the stories joined with their chapters rows,
\* one ListedStory per story id
get_all_stories(d) ==
    {from_url(d.stories[i].url).source :
        i \in {j \in 1..Len(d.stories) :
                  \E k \in 1..Len(d.chapters) :
                      d.chapters[k].story_id = d.stories[j].id}}

\* the ids update_story keeps: those of the fresh skeleton that the loaded
\* story does not hold
new_chapters(existing_story, new_skeleton) ==
    {c \in flatten_content(new_skeleton.chapters) :
        c \notin flatten_content(existing_story.chapters)}

\* an update_story that hydrates and saves whatever the difference is
must_fill_always(new) == TRUE

\* if !new_chapters.is_empty(): whether update_story hydrates and saves
must_fill(new) == new # {}

\* an update that writes the fetched story over the persisted one
save_new_chapters_rewrite(d, new_story, order) ==
    LET story_id == to_id(new_story.source)
        others == [stories |-> SelectSeq(d.stories, LAMBDA r : r.id # story_id),
                   sections |-> SelectSeq(d.sections, LAMBDA r : r.story_id # story_id),
                   chapters |-> SelectSeq(d.chapters, LAMBDA r : r.story_id # story_id)]
    IN  [w |-> save_story(Begin(others), new_story), added |-> Len(order)]

\* the loop over new_chapters: find the node in the hydrated story, save it
\* under the id of the Section that holds it
save_new_chapters(d, new_story, order) ==
    LET each[n \in 0..Len(order)] ==
            IF n = 0 THEN [w |-> Begin(d), added |-> 0]
            ELSE LET prev == each[n - 1]
                     found == find_chapter(new_story, order[n])
                 IN  IF ~prev.w.ok THEN prev
                     ELSE IF found = NotFound
                     THEN [prev EXCEPT !.w.ok = FALSE]
                     ELSE LET w1 == save_content(prev.w, found.chapter,
                                                 to_id(new_story.source),
                                                 found.parent)
                          IN  [w |-> w1,
                               added |-> IF w1.ok THEN prev.added + 1
                                         ELSE prev.added]
    IN  each[Len(order)]

\* a call of update_story or of add_story's fetch-and-save branch, up to its
\* first request: mode "full" fetches and saves the whole story, mode "diff"
\* loads the persisted story first
NewTask(mode, force) ==
    [mode |-> mode, force |-> force, pc |-> "skeleton", existing |-> Null,
     skeleton |-> Null, new |-> {}, fetched |-> Null, result |-> Null,
     hydrations |-> 0, writes |-> 0, pages |-> {}]

update_story_begin(d, source, force_refresh) ==
    IF force_refresh THEN NewTask("full", TRUE)
    ELSE LET existing_story == get_story_by_id(d, to_id(source))
         IN  CASE existing_story.tag = "None" ->
                    [NewTask("diff", FALSE) EXCEPT
                        !.pc = "done", !.result = Err("StoryNotExists")]
               [] existing_story.tag = "Panic" ->
                    [NewTask("diff", FALSE) EXCEPT
                        !.pc = "done", !.result = Panic]
               [] OTHER ->
                    [NewTask("diff", FALSE) EXCEPT
                        !.existing = existing_story.story]

add_story_never_exists(d, source) == NewTask("full", FALSE)

\* add_story up to its first request
add_story_begin(d, source) ==
    IF story_exists_with_id(d, to_id(source))
    THEN update_story_begin(d, source, FALSE)
    ELSE NewTask("full", FALSE)

RECURSIVE SumOver(_, _)
SumOver(S, f) ==
    IF S = {} THEN 0
    ELSE LET x == CHOOSE y \in S : TRUE IN f[x] + SumOver(S \ {x}, f)

\* what the command reports once its calls have ended: a panic in any call
\* ends the process at once
Conclude(c, ts) ==
    IF \E s \in DOMAIN ts : ts[s].result = Panic THEN Panic
    ELSE IF \E s \in DOMAIN ts : ts[s].pc # "done" THEN Null
    ELSE IF c.kind = "update_all"
    THEN [tag |-> "Ok",
          new_chaps |-> SumOver(DOMAIN ts,
                            [s \in DOMAIN ts |->
                                IF ts[s].result.tag = "Ok" THEN ts[s].result.n ELSE 0]),
          failed |-> Cardinality({s \in DOMAIN ts : ts[s].result.tag = "Err"})]
    ELSE ts[c.source].result

Idle == cmd = Null

\* add <url>: add_story(source)
AddStory(source) ==
    /\ Idle
    /\ cmd' = [kind |-> "add", source |-> source, force |-> FALSE, db0 |-> db]
    /\ tasks' = [s \in {source} |-> add_story_begin(db, source)]
    /\ outcome' = Conclude(cmd', tasks')
    /\ UNCHANGED <<db, remote, notEngine>>

\* update [--force] <story>: update_archive(Some(source), force_refresh)
UpdateStory(source, force_refresh) ==
    /\ Idle
    /\ cmd' = [kind |-> "update", source |-> source, force |-> force_refresh,
               db0 |-> db]
    /\ tasks' = [s \in {source} |-> update_story_begin(db, source, force_refresh)]
    /\ outcome' = Conclude(cmd', tasks')
    /\ UNCHANGED <<db, remote, notEngine>>

\* update [--force]: update_archive(None, force_refresh), every update_story
\* polled up to its first request
UpdateArchive(force_refresh) ==
    /\ Idle
    /\ cmd' = [kind |-> "update_all", source |-> Null, force |-> force_refresh,
               db0 |-> db]
    /\ tasks' = [s \in get_all_stories(db) |->
                    update_story_begin(db, s, force_refresh)]
    /\ outcome' = Conclude(cmd', tasks')
    /\ UNCHANGED <<db, remote, notEngine>>

Running(source) ==
    /\ cmd # Null
    /\ outcome = Null
    /\ source \in DOMAIN tasks

\* parser.get_skeleton(source).await? fails
SkeletonFails(source) ==
    /\ Running(source)
    /\ tasks[source].pc = "skeleton"
    /\ tasks' = [tasks EXCEPT ![source].pc = "done",
                              ![source].result = Err("Request")]
    /\ outcome' = Conclude(cmd, tasks')
    /\ UNCHANGED <<db, remote, cmd, notEngine>>

\* parser.get_skeleton(source).await? returns: update_story computes the new
\* ids and stops when there are none; a full fetch goes on to hydrate
SkeletonArrives(source) ==
    /\ Running(source)
    /\ tasks[source].pc = "skeleton"
    /\ LET t == tasks[source]
           new_skeleton == get_skeleton(Pages(remote[source]))
           new == IF t.mode = "diff"
                  THEN new_chapters(t.existing, new_skeleton)
                  ELSE {}
       IN  tasks' = [tasks EXCEPT ![source] =
                IF t.mode = "diff" /\ ~must_fill(new)
                THEN [t EXCEPT !.skeleton = new_skeleton, !.new = new,
                               !.pc = "done", !.result = Ok(0)]
                ELSE [t EXCEPT !.skeleton = new_skeleton, !.new = new,
                               !.pc = "fill"]]
    /\ outcome' = Conclude(cmd, tasks')
    /\ UNCHANGED <<db, remote, cmd, notEngine>>

\* parser.fill_skeleton(skeleton).await? fails
FillFails(source) ==
    /\ Running(source)
    /\ tasks[source].pc = "fill"
    /\ tasks' = [tasks EXCEPT ![source].pc = "done",
                              ![source].hydrations = @ + 1,
                              ![source].pages = pages_fetched(tasks[source].skeleton),
                              ![source].result = Err("Internal")]
    /\ outcome' = Conclude(cmd, tasks')
    /\ UNCHANGED <<db, remote, cmd, notEngine>>

\* parser.fill_skeleton(skeleton).await? returns: the story (mode "full") or
\* its new nodes (mode "diff") are saved
FillArrives(source) ==
    /\ Running(source)
    /\ tasks[source].pc = "fill"
    /\ LET t == tasks[source]
           new_story == fill_skeleton(t.skeleton, Pages(remote[source]))
       IN  IF t.mode = "full"
           THEN LET w == save_story(Begin(db), new_story)
                IN  /\ db' = Tables(w)
                    /\ tasks' = [tasks EXCEPT ![source] =
                            [t EXCEPT !.pc = "done", !.fetched = new_story,
                                      !.hydrations = @ + 1,
                                      !.pages = pages_fetched(t.skeleton),
                                      !.writes = w.writes,
                                      !.result = IF w.ok
                                                 THEN Ok(num_chapters(new_story.chapters))
                                                 ELSE Panic]]
           ELSE \E order \in Orders(t.new) :
                LET r == save_new_chapters(db, new_story, order)
                IN  /\ db' = Tables(r.w)
                    /\ tasks' = [tasks EXCEPT ![source] =
                            [t EXCEPT !.pc = "done", !.fetched = new_story,
                                      !.hydrations = @ + 1,
                                      !.pages = pages_fetched(t.skeleton),
                                      !.writes = r.w.writes,
                                      !.result = IF r.w.ok THEN Ok(r.added)
                                                 ELSE Panic]]
    /\ outcome' = Conclude(cmd, tasks')
    /\ UNCHANGED <<remote, cmd, notEngine>>

\* the sub-id the site gives its next node
NextSub(site, k) == AllSubs[CountNodes(site.chapters) + k]

\* the process ends; the next command is a new process on the same database
Exit ==
    /\ cmd # Null
    /\ outcome # Null
    /\ cmd' = Null
    /\ tasks' = Null
    /\ outcome' = Null
    /\ UNCHANGED <<db, remote, notEngine>>

\* the author posts a new chapter, at top level or into a Section
PublishChapter(source) ==
    /\ Idle
    /\ Served < MaxNodes
    /\ \E parent \in {NoParent} \cup SectionIds(remote[source].chapters) :
        remote' = [remote EXCEPT ![source].chapters =
            AddUnder(@, parent,
                     Chapter(ContentId(source, NextSub(remote[source], 1)),
                             Hydrated(NewText)))]
    /\ UNCHANGED <<db, cmd, tasks, outcome, notEngine>>

\* the author opens a new arc, a Section with a first chapter in it (of the
\* sites the resolver knows, Katalepsis alone groups its chapters)
PublishSection(source) ==
    /\ Idle
    /\ source.variant = "Katalepsis"
    /\ Served + 1 < MaxNodes
    /\ \E parent \in {NoParent} \cup SectionIds(remote[source].chapters) :
        remote' = [remote EXCEPT ![source].chapters =
            AddUnder(@, parent,
                Section(ContentId(source, NextSub(remote[source], 1)),
                        <<Chapter(ContentId(source, NextSub(remote[source], 2)),
                                  Hydrated(NewText))>>))]
    /\ UNCHANGED <<db, cmd, tasks, outcome, notEngine>>

\* the author edits a chapter that is already up
\* the chapters the authors have edited or taken down, all stories together
Revised ==
    {c \in Chapters(remote[FirstSource].chapters)
                \cup Chapters(remote[OtherSource].chapters) :
        c.text = Hydrated(EditedText) \/ c.kind = "Removed"}

EditChapter(source) ==
    /\ Idle
    /\ Cardinality(Revised) < MaxEdits
    /\ \E c \in Chapters(remote[source].chapters) :
        /\ c.kind = "Chapter"
        /\ c.text = Hydrated(NewText)
        /\ remote' = [remote EXCEPT ![source].chapters =
                WithText(@, c.id, Hydrated(EditedText))]
    /\ UNCHANGED <<db, cmd, tasks, outcome, notEngine>>

\* the author takes down a chapter that the archive holds (taking down one
\* it does not hold leaves pages no fetch can tell from those of a site where
\* the chapter was never posted, and what its text was last makes no
\* difference once it is down)
RemoveChapter(source) ==
    /\ Idle
    /\ Cardinality(Revised) < MaxEdits
    /\ \E c \in Chapters(remote[source].chapters) :
        /\ c.kind = "Chapter"
        /\ c.text = Hydrated(NewText)
        /\ HasId(db.chapters, c.id)
        /\ remote' = [remote EXCEPT ![source].chapters = Withdraw(@, c.id)]
    /\ UNCHANGED <<db, cmd, tasks, outcome, notEngine>>

Init ==
    /\ db = EmptyDb
    /\ remote = [s \in Sources |-> [source |-> s, name |-> "name", chapters |-> <<>>]]
    /\ cmd = Null
    /\ tasks = Null
    /\ outcome = Null
    /\ UrlIdle
    /\ ClientIdle
    /\ TreeIdle
    /\ AdapterIdle

Next ==
    \/ \E s \in Sources : AddStory(s)
    \/ \E s \in Sources, f \in BOOLEAN : UpdateStory(s, f)
    \/ \E f \in BOOLEAN : UpdateArchive(f)
    \/ \E s \in Sources : SkeletonFails(s)
    \/ \E s \in Sources : SkeletonArrives(s)
    \/ \E s \in Sources : FillFails(s)
    \/ \E s \in Sources : FillArrives(s)
    \/ \E s \in Sources : PublishChapter(s)
    \/ \E s \in Sources : PublishSection(s)
    \/ \E s \in Sources : EditChapter(s)
    \/ \E s \in Sources : RemoveChapter(s)
    \/ Exit

Spec == Init /\ [][Next]_vars

(***************************************************************************)
(* Claims about the engine                                                 *)
(***************************************************************************)
\* the id of every node of a forest, read off its parent relation
NodeIds(cs) == {e[1] : e \in ParentOf(cs, NoParent)}

WasPersisted(source) == HasId(cmd.db0.stories, to_id(source))

\* the rows of one story, table by table
StoryRows(d, story_id) ==
    [stories |-> SelectSeq(d.stories, LAMBDA r : r.id = story_id),
     sections |-> RowsOf(d.sections, story_id),
     chapters |-> RowsOf(d.chapters, story_id)]

(***************************************************************************)
(* C1: the stories table never holds two rows of one story id, and         *)
(* add_story for a source whose id is already persisted inserts no stories *)
(* row and runs as update_story(source, false)                             *)
(***************************************************************************)
C1_IdempotentAdd ==
    /\ \A i, j \in 1..Len(db.stories) :
          db.stories[i].id = db.stories[j].id => i = j
    /\ (cmd # Null /\ cmd.kind = "add" /\ WasPersisted(cmd.source)) =>
          /\ tasks[cmd.source].mode = "diff"
          /\ ~tasks[cmd.source].force
          /\ db.stories = cmd.db0.stories

\* the same source was added a second time and the call gained a chapter
C1_Witness ==
    /\ cmd # Null
    /\ cmd.kind = "add"
    /\ WasPersisted(cmd.source)
    /\ outcome = Ok(1)

(***************************************************************************)
(* C2: in a non-force update_story the ids selected for persistence are    *)
(* exactly the ids of the fresh skeleton (every Section and Chapter, at    *)
(* every depth) minus the ids of the persisted tree                        *)
(***************************************************************************)
C2_IncrementalDiff ==
    cmd # Null =>
        \A s \in DOMAIN tasks :
            (tasks[s].mode = "diff" /\ tasks[s].skeleton # Null) =>
                tasks[s].new = NodeIds(tasks[s].skeleton.chapters)
                                  \ NodeIds(tasks[s].existing.chapters)

\* a diff that kept two new ids, one of them inside a Section, next to ids
\* that were persisted already
C2_Witness ==
    /\ cmd # Null
    /\ \E s \in DOMAIN tasks :
        /\ tasks[s].mode = "diff"
        /\ tasks[s].skeleton # Null
        /\ Cardinality(tasks[s].new) = 2
        /\ NodeIds(tasks[s].existing.chapters) # {}
        /\ \E e \in ParentOf(tasks[s].skeleton.chapters, NoParent) :
              e[1] \in tasks[s].new /\ e[2] # NoParent

(***************************************************************************)
(* C3: a non-force update_story whose fresh skeleton holds no id that the  *)
(* persisted tree lacks is a no-op: fill_skeleton is not called, no row is *)
(* written, the call returns 0                                             *)
(***************************************************************************)
C3_NoOpUpdate ==
    cmd # Null =>
        \A s \in DOMAIN tasks :
            (/\ tasks[s].mode = "diff"
             /\ tasks[s].skeleton # Null
             /\ NodeIds(tasks[s].skeleton.chapters)
                    \subseteq NodeIds(tasks[s].existing.chapters)) =>
                /\ tasks[s].pc = "done"
                /\ tasks[s].result = Ok(0)
                /\ tasks[s].hydrations = 0
                /\ tasks[s].writes = 0
                /\ StoryRows(db, to_id(s)) = StoryRows(cmd.db0, to_id(s))

\* an update found nothing new for a story that has chapters, one of them
\* edited on the site since it was saved
C3_Witness ==
    /\ cmd # Null
    /\ cmd.kind = "update"
    /\ outcome = Ok(0)
    /\ tasks[cmd.source].mode = "diff"
    /\ tasks[cmd.source].skeleton # Null
    /\ NodeIds(tasks[cmd.source].existing.chapters) # {}
    /\ \E c \in Chapters(remote[cmd.source].chapters) : c.text = Hydrated(EditedText)

(***************************************************************************)
(* C7: update_story with forceRefresh = true on a persisted story whose    *)
(* fetch succeeds returns normally, and afterwards the persisted story     *)
(* (story row, sections, chapters, chapter text) is the fetched one        *)
(***************************************************************************)
C7_ForceRefreshOverwrites ==
    cmd # Null =>
        \A s \in DOMAIN tasks :
            (/\ tasks[s].force
             /\ WasPersisted(s)
             /\ tasks[s].fetched # Null) =>
                /\ tasks[s].result.tag = "Ok"
                /\ StoryRows(db, to_id(s))
                      = StoryRows(Tables(save_story(Begin(EmptyDb), tasks[s].fetched)),
                                  to_id(s))

(***************************************************************************)
(* C8: an update requested for a story that was never added ends with      *)
(* StoryNotExists and leaves the archive as it was                         *)
(***************************************************************************)
C8_UpdateOfUnknownStory ==
    (/\ cmd # Null
     /\ cmd.kind = "update"
     /\ ~WasPersisted(cmd.source)
     /\ outcome # Null) =>
        /\ outcome = Err("StoryNotExists")
        /\ db = cmd.db0

(***************************************************************************)
(* C9: update_archive with no story updates every persisted story, each on *)
(* its own: it ends normally whatever happens to one story, with the       *)
(* chapters gained by the stories that succeeded and the number that       *)
(* failed                                                                  *)
(***************************************************************************)
C9_UpdateAllIsolatesFailures ==
    (cmd # Null /\ cmd.kind = "update_all") =>
        /\ outcome # Panic
        /\ DOMAIN tasks = {from_url(cmd.db0.stories[i].url).source :
                              i \in 1..Len(cmd.db0.stories)}
        /\ outcome # Null =>
              /\ outcome.tag = "Ok"
              /\ outcome.failed
                    = Cardinality({s \in DOMAIN tasks : tasks[s].result.tag = "Err"})
              /\ outcome.new_chaps
                    = SumOver({s \in DOMAIN tasks : tasks[s].result.tag = "Ok"},
                              [s \in DOMAIN tasks |->
                                  IF tasks[s].result.tag = "Ok"
                                  THEN tasks[s].result.n ELSE 0])

(***************************************************************************)
(* C12: a non-force update_story that fails (at the skeleton fetch, at     *)
(* hydration or while persisting new nodes) leaves the persisted story     *)
(* exactly as it was before the call                                       *)
(***************************************************************************)
C12_FailedUpdateIsAtomic ==
    cmd # Null =>
        \A s \in DOMAIN tasks :
            (/\ tasks[s].mode = "diff"
             /\ tasks[s].pc = "done"
             /\ tasks[s].result.tag # "Ok") =>
                StoryRows(db, to_id(s)) = StoryRows(cmd.db0, to_id(s))

(***************************************************************************)
(* C14: in a successful non-force update every new node is persisted once, *)
(* with the story's canonical id as story_id and, as its parent column,    *)
(* the id of the Section that holds it in the fresh hydrated tree, or NULL *)
(* (NoParent) at top level; nothing else is written                        *)
(***************************************************************************)
\* the parent column of a row: section_id of a chapter, parent_id of a section
ParentColumn(row) ==
    IF "section_id" \in DOMAIN row THEN row.section_id ELSE row.parent_id

NewRows(s) ==
    LET was == StoryRows(cmd.db0, to_id(s))
        now == StoryRows(db, to_id(s))
    IN  [sections |-> SubSeq(now.sections, Len(was.sections) + 1, Len(now.sections)),
         chapters |-> SubSeq(now.chapters, Len(was.chapters) + 1, Len(now.chapters)),
         kept |-> /\ now.stories = was.stories
                  /\ SubSeq(now.sections, 1, Len(was.sections)) = was.sections
                  /\ SubSeq(now.chapters, 1, Len(was.chapters)) = was.chapters]

C14_NewNodesUnderTheirParent ==
    cmd # Null =>
        \A s \in DOMAIN tasks :
            (/\ tasks[s].mode = "diff"
             /\ tasks[s].pc = "done"
             /\ tasks[s].result.tag = "Ok"
             /\ tasks[s].fetched # Null) =>
                LET rows == NewRows(s)
                    all == rows.sections \o rows.chapters
                IN  /\ rows.kept
                    /\ Len(all) = Cardinality(tasks[s].new)
                    /\ {all[i].id : i \in 1..Len(all)} = tasks[s].new
                    /\ \A i \in 1..Len(all) :
                          /\ all[i].story_id = to_id(s)
                          /\ <<all[i].id, ParentColumn(all[i])>>
                                \in ParentOf(tasks[s].fetched.chapters, NoParent)
                    /\ \A i \in 1..Len(rows.chapters) :
                          \E c \in Chapters(tasks[s].fetched.chapters) :
                              c.id = rows.chapters[i].id

\* an update saved one new chapter that sits inside a Section
C14_Witness ==
    /\ cmd # Null
    /\ cmd.kind = "update"
    /\ outcome = Ok(1)
    /\ tasks[cmd.source].mode = "diff"
    /\ LET rows == NewRows(cmd.source)
       IN  /\ Len(rows.chapters) = 1
           /\ rows.chapters[1].section_id # NoParent

(***************************************************************************)
(* C20: during a non-force update no chapter page is fetched for a chapter *)
(* whose id is already persisted (RoyalRoad adapter)                       *)
(***************************************************************************)
C20_NoRefetchOfKnownChapters ==
    cmd # Null =>
        \A s \in DOMAIN tasks :
            (/\ tasks[s].mode = "diff"
             /\ s.variant = "RoyalRoad"
             /\ tasks[s].existing # Null) =>
                tasks[s].pages \cap NodeIds(tasks[s].existing.chapters) = {}

(***************************************************************************)
(* C26: the count a successful update_story returns is the number of       *)
(* chapters rows the call added to the story, with and without             *)
(* forceRefresh, and the chapters gained that update-all reports is the    *)
(* number of chapters rows the command added                               *)
(***************************************************************************)
ChaptersGained(s) ==
    Len(StoryRows(db, to_id(s)).chapters) - Len(StoryRows(cmd.db0, to_id(s)).chapters)

C26_CountIsChaptersAdded ==
    cmd # Null =>
        /\ \A s \in DOMAIN tasks :
              (/\ cmd.kind # "add" \/ tasks[s].mode = "diff"
               /\ tasks[s].pc = "done"
               /\ tasks[s].result.tag = "Ok") =>
                  tasks[s].result.n = ChaptersGained(s)
        /\ (/\ cmd.kind = "update_all"
            /\ outcome # Null
            /\ outcome # Panic) =>
                outcome.new_chaps = Len(db.chapters) - Len(cmd.db0.chapters)

\* update-all has ended after one story gained a chapter inside a persisted
\* Section
C26_Witness ==
    /\ cmd # Null
    /\ cmd.kind = "update_all"
    /\ outcome # Null
    /\ outcome # Panic
    /\ outcome.new_chaps >= 1
    /\ \E s \in DOMAIN tasks :
          /\ tasks[s].result = Ok(1)
          /\ \E i \in 1..Len(db.chapters) :
                /\ db.chapters[i].story_id = to_id(s)
                /\ db.chapters[i].section_id # NoParent
                /\ ~HasId(cmd.db0.chapters, db.chapters[i].id)

\* a forced update of a story that holds a Section has returned its count
C26_ForceWitness ==
    /\ cmd # Null
    /\ cmd.force
    /\ \E s \in DOMAIN tasks :
          /\ tasks[s].result.tag = "Ok"
          /\ tasks[s].result.n >= 1
          /\ \E i \in 1..Len(db.sections) : db.sections[i].story_id = to_id(s)

(***************************************************************************)
(* C29: a non-force update whose fresh skeleton shows a new Section with   *)
(* new Chapters in it succeeds, and has inserted every new node exactly    *)
(* once                                                                    *)
(***************************************************************************)
HoldsNewSection(t) ==
    \E id \in t.new :
        /\ id \in SectionIds(t.fetched.chapters)
        /\ \E c \in t.new \ {id} :
              <<c, id>> \in ParentOf(t.fetched.chapters, NoParent)

C29_NewSectionSavedOnce ==
    cmd # Null =>
        \A s \in DOMAIN tasks :
            (/\ tasks[s].mode = "diff"
             /\ tasks[s].pc = "done"
             /\ (IF tasks[s].fetched = Null THEN FALSE
                 ELSE HoldsNewSection(tasks[s]))) =>
                LET rows == NewRows(s)
                    all == rows.sections \o rows.chapters
                IN  /\ tasks[s].result.tag = "Ok"
                    /\ Len(all) = Cardinality(tasks[s].new)
                    /\ {all[i].id : i \in 1..Len(all)} = tasks[s].new

IsPrefixOf(a, b) == Len(a) <= Len(b) /\ SubSeq(b, 1, Len(a)) = a

(***************************************************************************)
(* C21: no step of a command that is not a force refresh removes or        *)
(* rewrites a sections or chapters row: the rows persisted before the step *)
(* are all there after it, unchanged, whatever the site shows now          *)
(***************************************************************************)
C21_PersistedRowsStay ==
    [][(cmd # Null /\ ~cmd.force) =>
          /\ IsPrefixOf(db.stories, db'.stories)
          /\ IsPrefixOf(db.sections, db'.sections)
          /\ IsPrefixOf(db.chapters, db'.chapters)]_vars

\* a non-force update has saved a new chapter of a story one of whose
\* persisted chapters the site lists no more
C21_Witness ==
    /\ cmd # Null
    /\ cmd.kind = "update"
    /\ ~cmd.force
    /\ outcome = Ok(1)
    /\ Len(db.chapters) > Len(cmd.db0.chapters)
    /\ \E i \in 1..Len(cmd.db0.chapters) :
          /\ cmd.db0.chapters[i].story_id = to_id(cmd.source)
          /\ cmd.db0.chapters[i].id
                \notin NodeIds(Listed(remote[cmd.source].chapters))

(***************************************************************************)
(* Storage faults: the engine with a database whose existence query can    *)
(* fail (the file is locked, or unreadable for that statement)             *)
(***************************************************************************)
\* story_exists_with_id when query_row returns Err: .unwrap_or(None), then
\* Ok(story_exists.is_some())
story_exists_query_failed == Ok(FALSE)

\* add_story up to its first request when the existence query fails
add_story_begin_query_failed(d, source) ==
    IF story_exists_query_failed.tag = "Err" THEN
        [NewTask("full", FALSE) EXCEPT !.pc = "done", !.result = Err("Database")]
    ELSE IF story_exists_query_failed.n
    THEN update_story_begin(d, source, FALSE)
    ELSE NewTask("full", FALSE)

\* add <url>, the existence query fails
AddStoryQueryFails(source) ==
    /\ Idle
    /\ cmd' = [kind |-> "add", source |-> source, force |-> FALSE, db0 |-> db,
               fault |-> "story_exists_with_id"]
    /\ tasks' = [s \in {source} |-> add_story_begin_query_failed(db, source)]
    /\ outcome' = Conclude(cmd', tasks')
    /\ UNCHANGED <<db, remote, notEngine>>

StorageNext ==
    \/ Next
    \/ \E s \in Sources : AddStoryQueryFails(s)

SpecStorage == Init /\ [][StorageNext]_vars

(***************************************************************************)
(* C23: a storage failure in a database step of add_story or update_story  *)
(* is never swallowed: a call whose existence query failed has ended with  *)
(* a Database error, and no call ends the process because a statement      *)
(* failed                                                                  *)
(***************************************************************************)
C23_StorageFailureAborts ==
    cmd # Null =>
        \A s \in DOMAIN tasks :
            /\ "fault" \in DOMAIN cmd =>
                  /\ tasks[s].pc = "done"
                  /\ tasks[s].result = Err("Database")
            /\ tasks[s].result # Panic

(***************************************************************************)
(* The adapters: ao3.rs, royalroad.rs, xenforo.rs                          *)
(*                                                                         *)
(* A page is what the site of one story serves: the user names it shows,   *)
(* the chapters posted so far, oldest first, each with the sub-identifier  *)
(* the site gave it (the number in its link), and the number of reader     *)
(* pages of a forum thread.                                                *)
(***************************************************************************)
AdapterSources ==
    {[variant |-> "AO3", id |-> <<"1">>],
     [variant |-> "RoyalRoad", id |-> <<"1">>],
     [variant |-> "SpaceBattles", id |-> <<"1">>],
     [variant |-> "SufficientVelocity", id |-> <<"2">>]}

Xenforo(source) == source.variant \in {"SpaceBattles", "SufficientVelocity"}

UserNames == {"a", "b"}

Author(name, id) == [name |-> name, id |-> id]

\* AuthorList::new
AuthorList_new(author) == [ok |-> TRUE, authors |-> <<author>>]

\* a from_list that takes any list
AuthorList_from_list_unchecked(authors) == [ok |-> TRUE, authors |-> authors]

\* AuthorList::from_list: assert!(authors.len() > 0)
AuthorList_from_list(authors) ==
    IF Len(authors) > 0 THEN [ok |-> TRUE, authors |-> authors] ELSE [ok |-> FALSE]

\* the Author an adapter builds for a user name: id = prefix ":" site id of the user
AuthorOf(source, name) == Author(name, <<prefix(source), ":", name>>)

Story(source, authors, chapters) ==
    [source |-> source, name |-> "name", authors |-> authors, chapters |-> chapters]

OkStory(story) == [tag |-> "Ok", story |-> story]

\* AO3Parser::get_skeleton, the chapters: a work page with .chapter children
\* gives one Chapter per child, its id the number in the chapter link
\* (get_chapter_id); a page without them gives one Chapter with the id
\* source.to_id() ":".  The text is read from the work page at once.
AO3Parser_chapters(p) ==
    IF Len(p.posts) > 1
    THEN [i \in 1..Len(p.posts) |-> Chapter(p.posts[i].sub, Hydrated(p.posts[i].body))]
    ELSE <<Chapter(to_id(p.source) \o <<":">>, Hydrated(p.posts[1].body))>>

\* AO3Parser::get_skeleton on pages that arrive: no rel=author link is a
\* PageError, no tag box ends get_tags in expect("Story does not have tag box")
AO3Parser_parse(p) ==
    IF p.usernames = <<>> THEN Err("PageError")
    ELSE IF ~p.tagbox THEN Panic
    ELSE OkStory(Story(p.source,
                       AuthorList_new(AuthorOf(p.source, p.usernames[1])).authors,
                       AO3Parser_chapters(p)))

\* RoyalRoadParser::get_skeleton on a page that arrives: one Dehydrated
\* Chapter per row of the chapter table, id = source.to_id() ":" chapter
\* number; a page without the author link ends in expect("Cannot find author
\* name")
RoyalRoadParser_parse(p) ==
    IF p.usernames = <<>> THEN Panic
    ELSE OkStory(Story(p.source,
                  AuthorList_new(AuthorOf(p.source, p.usernames[1])).authors,
                  [i \in 1..Len(p.posts) |->
                      Chapter(to_id(p.source) \o <<":">> \o p.posts[i].sub, Dehydrated)]))

\* XenforoParser::get_skeleton on a page that arrives: every .username an
\* Author, one Dehydrated Chapter per threadmark, id = source.to_id() ":" post
\* number, its author looked up by name; the AuthorList is built from the list
XenforoParser_parse(p) ==
    LET authors == [i \in 1..Len(p.usernames) |-> AuthorOf(p.source, p.usernames[i])]
        chapters == [i \in 1..Len(p.posts) |->
                        Chapter(to_id(p.source) \o <<":">> \o p.posts[i].sub, Dehydrated)]
        list == AuthorList_from_list(authors)
    IN  IF \E i \in 1..Len(p.posts) : p.posts[i].by \notin Range(p.usernames)
        THEN Err("PageError")
        ELSE IF ~list.ok THEN Panic
        ELSE OkStory(Story(p.source, list.authors, chapters))

\* source.parser().get_skeleton(source) on pages that arrive
parse_skeleton(p) ==
    CASE p.source.variant = "AO3" -> AO3Parser_parse(p)
      [] p.source.variant = "RoyalRoad" -> RoyalRoadParser_parse(p)
      [] OTHER -> XenforoParser_parse(p)

\* str::rfind for a one-character pattern: the last position, 0 for None
rfind(str, c) ==
    IF \E i \in 1..Len(str) : str[i] = c
    THEN Max({i \in 1..Len(str) : str[i] = c})
    ELSE 0

\* Chapter::chapter_id: what follows the last ":" of the id
chapter_id(chapter) ==
    LET idx == rfind(chapter.id, ":")
    IN  IF idx = 0 THEN <<>> ELSE SubSeq(chapter.id, idx + 1, Len(chapter.id))

\* the text of the k-th post of a site: every post has a text of its own
BodyOf_post(k) == <<"text">> \o AllSubs[k]

\* the text the site shows for the chapter with this sub-identifier
PostBody(p, sub) ==
    LET i == CHOOSE i \in 1..Len(p.posts) : p.posts[i].sub = sub
    IN  p.posts[i].body

\* the reader page of a forum thread that shows the i-th threadmark: the
\* pages fill in order, the last one takes the rest
ReaderPageOf(p, i) == Min({i, p.reader})

\* what a get brings when it arrives.  RoyalRoad, fetch k is the get of
\* chapter k's url: the page of that chapter.  Xenforo, fetch k is the get of
\* /reader/page-k: the posts that page shows.
response(p, story, k) ==
    IF story.source.variant = "RoyalRoad"
    THEN PostBody(p, chapter_id(story.chapters[k]))
    ELSE {p.posts[i] : i \in {j \in 1..Len(p.posts) : ReaderPageOf(p, j) = k}}

\* a pairing that hands chapter i the response that completed in its place
response_by_arrival(f, i) ==
    f.got[f.done[Cardinality({j \in DOMAIN f.fetch : j <= i})]]

\* RoyalRoad, Ok((chapter, page)): the response travels with the chapter it
\* was requested for
response_for(f, i) == f.got[i]

\* Xenforo, pages.iter().find(..): the fetched reader pages that hold the
\* post js-post-<chapter_id> of chapter i
find_page(f, i) ==
    {k \in DOMAIN f.got \ {0} :
        \E post \in f.got[k] : post.sub = chapter_id(f.story.chapters[i])}

\* the text fill_skeleton reads for chapter i out of what it fetched
body_text(f, i) ==
    IF f.story.source.variant = "RoyalRoad" THEN response_for(f, i)
    ELSE LET sub == chapter_id(f.story.chapters[i])
             elem == f.got[Min(find_page(f, i))]
         IN  (CHOOSE post \in elem : post.sub = sub).body

\* the positions of the chapters fill_skeleton hydrates: the top-level
\* Content::Chapter entries, a Content::Section is passed over
hydrate(skeleton) ==
    {i \in 1..Len(skeleton.chapters) : skeleton.chapters[i].kind = "Chapter"}

\* a fill_skeleton that gives up only when every fetch failed
all_failed(results) ==
    /\ DOMAIN results # {}
    /\ \A k \in DOMAIN results : results[k] = "err"

\* results.iter().any(|res| res.is_err())
any_failed(results) == \E k \in DOMAIN results : results[k] = "err"

\* extract_error: the first Err of the list, or the values
extract_error(list) ==
    IF \E k \in DOMAIN list : list[k] = "err" THEN Err("Request") ELSE Ok(0)

\* one call of fill_skeleton in progress: the skeleton it owns, the fetches it
\* issued and what became of each, the response each one brought and the
\* order they completed in, where it stands, what it returned, and the
\* values each chapter's text has held since the skeleton was built
Filling(story, fetch, phase) ==
    [story |-> story, fetch |-> fetch, phase |-> phase, result |-> Null,
     got |-> [k \in DOMAIN fetch |-> Null], done |-> <<>>,
     history |-> [i \in 1..Len(story.chapters) |-> <<story.chapters[i].text>>]]

Pending(K) == [k \in K |-> "pending"]

AdapterPages ==
    {[source |-> src, usernames |-> names, posts |-> posts, reader |-> n,
      tagbox |-> box] :
        src \in AdapterSources, names \in {<<>>, <<"a">>},
        posts \in {<<>>, <<[sub |-> AllSubs[1], by |-> "a", body |-> BodyOf_post(1)]>>},
        n \in 1..MaxReaderPages, box \in BOOLEAN}

\* what a site can serve before anything is fetched: an AO3 work has a
\* chapter, may hide its author and, after a change of template, may lack
\* the tag box; a RoyalRoad fiction shows its one author unless the template
\* changed; a forum thread shows the names of those who posted threadmarks
AdapterStart(p) ==
    CASE p.source.variant = "AO3" -> Len(p.posts) = 1 /\ p.reader = 1
      [] p.source.variant = "RoyalRoad" ->
            p.posts = <<>> /\ p.reader = 1 /\ p.tagbox
      [] OTHER -> p.usernames = <<>> /\ p.posts = <<>> /\ p.tagbox

AdapterInit ==
    /\ page \in {p \in AdapterPages : AdapterStart(p)}
    /\ skels = <<>>
    /\ fill = Null
    /\ UrlIdle /\ ClientIdle /\ TreeIdle /\ EngineIdle
    /\ db = EmptyDb

\* the author publishes one more chapter; a forum shows the poster's name
AdapterPost(by) ==
    /\ Len(page.posts) < MaxPosts
    /\ by \in (IF Xenforo(page.source) THEN UserNames ELSE {"a"})
    /\ page' = [page EXCEPT
                   !.posts = Append(@, [sub |-> AllSubs[Len(@) + 1], by |-> by,
                                        body |-> BodyOf_post(Len(@) + 1)]),
                   !.usernames = IF Xenforo(page.source) /\ by \notin Range(@)
                                 THEN Append(@, by) ELSE @]
    /\ UNCHANGED <<skels, fill, notAdapter>>

NotFilling == IF fill = Null THEN TRUE ELSE fill.phase = "returned"

\* get_skeleton, its pages arrive
GetSkeleton ==
    /\ NotFilling
    /\ Len(skels) < MaxFetches
    /\ skels' = Append(skels, parse_skeleton(page))
    /\ UNCHANGED <<page, fill, notAdapter>>

\* get_skeleton, a page does not arrive: get(..).await?
GetSkeletonFails ==
    /\ NotFilling
    /\ Len(skels) < MaxFetches
    /\ skels' = Append(skels, Err("Request"))
    /\ UNCHANGED <<page, fill, notAdapter>>

\* the caller passes the skeleton it just got to fill_skeleton.  AO3:
\* Ok(skeleton) at once.  RoyalRoad: one get per top-level chapter, all
\* issued together.  Xenforo: the first /reader page is fetched alone.
StartFill ==
    /\ NotFilling
    /\ skels # <<>>
    /\ skels[Len(skels)].tag = "Ok"
    /\ LET skeleton == skels[Len(skels)].story
       IN  fill' =
              CASE skeleton.source.variant = "AO3" ->
                      [Filling(skeleton, Pending({}), "returned")
                          EXCEPT !.result = OkStory(skeleton)]
                [] skeleton.source.variant = "RoyalRoad" ->
                      Filling(skeleton, Pending(hydrate(skeleton)), "fetch")
                [] OTHER -> Filling(skeleton, Pending({0}), "first")
    /\ UNCHANGED <<page, skels, notAdapter>>

\* Xenforo: the first reader page arrives, it names the last page, and one
\* get per reader page is issued
FirstPageArrives ==
    /\ fill # Null
    /\ fill.phase = "first"
    /\ fill' = [fill EXCEPT !.phase = "fetch",
                            !.fetch = [k \in 0..page.reader |->
                                          IF k = 0 THEN "ok" ELSE "pending"],
                            !.got = [k \in 0..page.reader |-> Null]]
    /\ UNCHANGED <<page, skels, notAdapter>>

\* Xenforo: get(.../reader).await? fails
FirstPageFails ==
    /\ fill # Null
    /\ fill.phase = "first"
    /\ fill' = [fill EXCEPT !.phase = "returned",
                            !.fetch = [k \in {0} |-> "err"],
                            !.result = Err("Request")]
    /\ UNCHANGED <<page, skels, notAdapter>>

\* one of the fetches under join_all completes
FetchArrives(k) ==
    /\ fill # Null
    /\ fill.phase = "fetch"
    /\ k \in DOMAIN fill.fetch
    /\ fill.fetch[k] = "pending"
    /\ fill' = [fill EXCEPT !.fetch[k] = "ok",
                            !.got[k] = response(page, fill.story, k),
                            !.done = Append(@, k)]
    /\ UNCHANGED <<page, skels, notAdapter>>

FetchFails(k) ==
    /\ fill # Null
    /\ fill.phase = "fetch"
    /\ k \in DOMAIN fill.fetch
    /\ fill.fetch[k] = "pending"
    /\ fill' = [fill EXCEPT !.fetch[k] = "err", !.done = Append(@, k)]
    /\ UNCHANGED <<page, skels, notAdapter>>

\* join_all returns.  RoyalRoad: any Err among the results ends the call
\* with Internal("Oopsie!").  Xenforo: extract_error(pages)?, then every
\* chapter's post is looked up in the pages.
Joined ==
    /\ fill # Null
    /\ fill.phase = "fetch"
    /\ \A k \in DOMAIN fill.fetch : fill.fetch[k] # "pending"
    /\ fill' =
          IF fill.story.source.variant = "RoyalRoad"
          THEN IF any_failed(fill.fetch)
               THEN [fill EXCEPT !.phase = "returned", !.result = Err("Internal")]
               ELSE [fill EXCEPT !.phase = "assign"]
          ELSE IF extract_error(fill.fetch).tag = "Err"
               THEN [fill EXCEPT !.phase = "returned",
                                 !.result = extract_error(fill.fetch)]
               ELSE IF \E i \in hydrate(fill.story) : find_page(fill, i) = {}
               THEN [fill EXCEPT !.phase = "returned", !.result = Err("PageError")]
               ELSE [fill EXCEPT !.phase = "assign"]
    /\ UNCHANGED <<page, skels, notAdapter>>

\* the chapters whose text the call is about to assign
ToAssign(f) ==
    {i \in hydrate(f.story) :
        /\ Len(f.history[i]) = 1
        /\ f.story.source.variant = "RoyalRoad" => f.fetch[i] = "ok"}

\* chapter.text = ChapterText::Hydrated(body_text): RoyalRoad in the order
\* the rayon scope runs its tasks, Xenforo in the order of the list
AssignText(i) ==
    /\ fill # Null
    /\ fill.phase = "assign"
    /\ i \in ToAssign(fill)
    /\ Xenforo(fill.story.source) => i = Min(ToAssign(fill))
    /\ LET text == Hydrated(body_text(fill, i))
       IN  fill' = [fill EXCEPT !.story.chapters[i].text = text,
                                !.history[i] = Append(@, text)]
    /\ UNCHANGED <<page, skels, notAdapter>>

\* Ok(skeleton)
FillReturns ==
    /\ fill # Null
    /\ fill.phase = "assign"
    /\ ToAssign(fill) = {}
    /\ fill' = [fill EXCEPT !.phase = "returned", !.result = OkStory(fill.story)]
    /\ UNCHANGED <<page, skels, notAdapter>>

AdapterNext ==
    \/ \E by \in UserNames : AdapterPost(by)
    \/ GetSkeleton
    \/ GetSkeletonFails
    \/ StartFill
    \/ FirstPageArrives
    \/ FirstPageFails
    \/ \E k \in 0..MaxPosts + MaxReaderPages : FetchArrives(k)
    \/ \E k \in 0..MaxPosts + MaxReaderPages : FetchFails(k)
    \/ Joined
    \/ \E i \in 1..MaxPosts : AssignText(i)
    \/ FillReturns

SpecAdapter == AdapterInit /\ [][AdapterNext]_vars

(***************************************************************************)
(* Claims about the adapters, under SpecAdapter                            *)
(***************************************************************************)
Failed(f) == {k \in DOMAIN f.fetch : f.fetch[k] = "err"}

OkSkeletons == {i \in 1..Len(skels) : skels[i].tag = "Ok"}

starts_with(str, pre) ==
    /\ Len(pre) <= Len(str)
    /\ SubSeq(str, 1, Len(pre)) = pre

\* C13: fill_skeleton is all-or-nothing.  Once one of the page fetches of a
\* RoyalRoad or Xenforo fill_skeleton call has failed, the call never
\* returns a Story, no chapter of the skeleton it owns is ever hydrated, and
\* what it returns is an error.
C13_FillIsAllOrNothing ==
    (IF fill = Null THEN FALSE ELSE Failed(fill) # {}) =>
        /\ fill.result.tag # "Ok"
        /\ fill.phase = "returned" => fill.result.tag = "Err"
        /\ \A i \in 1..Len(fill.story.chapters) :
              fill.story.chapters[i].text = Dehydrated

\* a RoyalRoad call over two chapters has returned after one page arrived
\* and the other did not
C13_Witness ==
    IF fill = Null THEN FALSE
    ELSE /\ fill.story.source.variant = "RoyalRoad"
         /\ fill.phase = "returned"
         /\ Len(fill.story.chapters) >= 2
         /\ \E j, k \in DOMAIN fill.fetch :
               fill.fetch[j] = "ok" /\ fill.fetch[k] = "err"
         /\ fill.result = Err("Internal")

\* C15: every AuthorList that is constructed has at least one author.  The
\* Story of every skeleton an adapter returns has one author or more, one
\* exactly when it was built with AuthorList::new (AO3, RoyalRoad), and a
\* forum page that shows no user name gives no Story: from_list fails.
C15_AuthorListNeverEmpty ==
    /\ [](\A i \in OkSkeletons :
            /\ Len(skels[i].story.authors) >= 1
            /\ ~Xenforo(skels[i].story.source) => Len(skels[i].story.authors) = 1)
    /\ [][(/\ Len(skels') = Len(skels) + 1
           /\ page.usernames = <<>>) =>
              skels'[Len(skels')].tag # "Ok"]_vars

\* a forum thread with no user name was fetched: from_list was called with
\* zero authors and panicked
C15_Witness ==
    /\ Xenforo(page.source)
    /\ \E i \in 1..Len(skels) : skels[i] = Panic

\* C16: every Chapter of the Story get_skeleton returns is Dehydrated, for
\* every adapter.
C16_SkeletonIsDehydrated ==
    \A i \in OkSkeletons :
        \A n \in 1..Len(skels[i].story.chapters) :
            skels[i].story.chapters[n].text = Dehydrated

\* C17: after a successful fill_skeleton every Chapter is Hydrated, and its
\* text has held exactly two values since the skeleton was built: Dehydrated
\* first, then the Hydrated text it has now.
C17_HydratedExactlyOnce ==
    (IF fill = Null THEN FALSE ELSE fill.result.tag = "Ok") =>
        \A i \in 1..Len(fill.story.chapters) :
            /\ fill.story.chapters[i].text.tag = "Hydrated"
            /\ fill.history[i] = <<Dehydrated, fill.story.chapters[i].text>>

\* C18: a remote chapter gets the same id in every skeleton fetch.  Posts
\* are only ever appended, so the n-th chapter of an earlier skeleton is the
\* n-th chapter of every later one.
C18_SameChapterSameId ==
    \A i, j \in OkSkeletons :
        i < j =>
            \A n \in 1..Len(skels[i].story.chapters) :
                skels[j].story.chapters[n].id = skels[i].story.chapters[n].id

\* C19: every Content id an adapter produces starts with the canonical id of
\* the story, source.to_id(), and a ":".
C19_IdStartsWithStoryId ==
    \A i \in OkSkeletons :
        \A n \in 1..Len(skels[i].story.chapters) :
            starts_with(skels[i].story.chapters[n].id,
                        to_id(skels[i].story.source) \o <<":">>)

\* C22: a page that lacks a node an adapter expects makes get_skeleton
\* return an error to its caller; no call of get_skeleton ends the process.
C22_MissingNodeIsPageError ==
    \A i \in 1..Len(skels) :
        /\ skels[i] # Panic
        /\ (page.usernames = <<>> \/ ~page.tagbox) => skels[i].tag = "Err"

\* C25: within one hydration batch, whatever order the concurrent fetches
\* complete in, a fill_skeleton that returns a Story has given every chapter
\* the text the site shows for that very chapter: no response is written
\* into another chapter.
C25_OwnResponseOnly ==
    (IF fill = Null THEN FALSE
     ELSE fill.result.tag = "Ok" /\ fill.story.source.variant # "AO3") =>
        \A i \in hydrate(fill.story) :
            fill.story.chapters[i].text =
                Hydrated(PostBody(page, chapter_id(fill.story.chapters[i])))

\* a RoyalRoad call over two chapters returned its Story after the page of
\* the second chapter arrived before the page of the first
C25_Witness ==
    IF fill = Null THEN FALSE
    ELSE /\ fill.story.source.variant = "RoyalRoad"
         /\ fill.result.tag = "Ok"
         /\ Len(fill.story.chapters) >= 2
         /\ fill.done = <<2, 1>>
         /\ fill.story.chapters[1].text # fill.story.chapters[2].text

(***************************************************************************)
(* Resolver specification: classify any URL, then classify the canonical   *)
(* URL of the result.                                                      *)
(***************************************************************************)
UrlInit ==
    /\ url \in Urls
    /\ classified = Null
    /\ roundtrip = Null
    /\ ClientIdle
    /\ db = EmptyDb
    /\ TreeIdle
    /\ EngineIdle
    /\ AdapterIdle

Classify ==
    /\ classified = Null
    /\ classified' = from_url(url)
    /\ UNCHANGED <<url, roundtrip, notUrl>>

Reclassify ==
    /\ classified # Null
    /\ classified.tag = "Ok"
    /\ roundtrip = Null
    /\ roundtrip' = from_url(to_url(classified.source))
    /\ UNCHANGED <<url, classified, notUrl>>

UrlNext ==
    \/ Classify
    \/ Reclassify

SpecUrl == UrlInit /\ [][UrlNext]_vars

(***************************************************************************)
(* C5: for every URL u that from_url accepts with result s,                *)
(* from_url(to_url(s)) succeeds with the same variant and the same site id *)
(***************************************************************************)
C5_RoundTrip ==
    roundtrip # Null =>
        /\ roundtrip.tag = "Ok"
        /\ roundtrip.source.variant = classified.source.variant
        /\ roundtrip.source.id = classified.source.id

\* a thread URL that carries a thread name was classified and re-classified
C5_Witness ==
    /\ roundtrip # Null
    /\ classified.source.variant = "SpaceBattles"
    /\ url.tail = <<"a", ".", "2">>

(***************************************************************************)
(* C6: the first matching rule alone decides the result of from_url; the   *)
(* result is BadSource exactly when no rule matches and NoIdInSource       *)
(* exactly when the deciding rule's source needs an id and none was        *)
(* captured                                                                *)
(***************************************************************************)
RuleVariant ==
    [n \in {"ao3", "ffnet", "katalepsis", "rr", "sb", "sv"} |->
        CASE n = "ao3" -> "AO3"
          [] n = "katalepsis" -> "Katalepsis"
          [] n = "rr" -> "RoyalRoad"
          [] n = "sb" -> "SpaceBattles"
          [] n = "sv" -> "SufficientVelocity"
          [] OTHER -> "none"]

NeedsId(n) == n \in {"ao3", "rr", "sb", "sv"}

FirstMatch(u, i) ==
    /\ RegexIsMatch(init_regexes[i], u)
    /\ \A j \in 1..(i - 1) : ~RegexIsMatch(init_regexes[j], u)

C6_FirstMatchDecides ==
    classified # Null =>
        /\ classified.tag = "BadSource" <=>
              \A i \in 1..Len(init_regexes) : ~RegexIsMatch(init_regexes[i], url)
        /\ \A i \in 1..Len(init_regexes) : FirstMatch(url, i) =>
              LET rule == init_regexes[i]
                  noId == NeedsId(rule.name) /\ RegexCapture(rule, url) = NoCapture
              IN  /\ classified.tag = "NoIdInSource" <=> noId
                  /\ classified.tag = "Ok" =>
                        /\ classified.source.variant = RuleVariant[rule.name]
                        /\ NeedsId(rule.name) =>
                              classified.source.id = RegexCapture(rule, url)
                  /\ (RuleVariant[rule.name] # "none" /\ ~noId) =>
                        classified.tag = "Ok"

\* a URL that the katalepsis rule alone matches, by its open end, was
\* classified
C6_Witness ==
    /\ classified # Null
    /\ classified.tag = "Ok"
    /\ classified.source.variant = "Katalepsis"
    /\ url.host = "katalepsis.network"

(***************************************************************************)
(* C27: every rule of the rule table maps to a StorySource variant, and    *)
(* for every URL that some rule matches from_url returns a StorySource or  *)
(* an ArchiveError: it never ends the process                              *)
(***************************************************************************)
C27_EveryRuleHasAVariant ==
    (/\ classified # Null
     /\ \E i \in 1..Len(init_regexes) : RegexIsMatch(init_regexes[i], url)) =>
        \/ classified.tag = "NoIdInSource"
        \/ /\ classified.tag = "Ok"
           /\ classified.source.variant \in Variants

====
